---- MODULE Spec2Model ----
(***************************************************************************)
(* Model of the WeFlora ingestion core:                                    *)
(*   backend/ingestion/supabase_rest.py  SupabaseREST.fetch_rows           *)
(*                                       SupabaseREST.insert_rows          *)
(*   backend/ingestion/chunking.py       chunk_text                        *)
(* Each operation is a small state machine over its local variables; the   *)
(* remote store is a static table answered by ServerList.                  *)
(***************************************************************************)
EXTENDS Integers, Sequences, FiniteSets, TLC

\* ---------------------------------------------------------------- bounds
MaxRows  == 4    \* rows of the remote table
MaxKey   == 3    \* ordering-column values are 1..MaxKey, or None (SQL NULL)
MaxPage  == 3    \* page_size ranges over 1..MaxPage
MaxLimit == 3    \* the row limit ranges over None, 0..MaxLimit
MaxCap   == 1    \* the server's own cap on rows per answer: None, 1..MaxCap
MaxInsRows == 6  \* insert_rows is given 0..MaxInsRows rows
MaxBatch == 3    \* batch_size ranges over 1..MaxBatch
MaxTextLen == 7  \* chunk_text is given texts of 0..MaxTextLen characters
MaxTokens == 3   \* max_tokens ranges over 1..MaxTokens, overlap over 0..MaxTokens
MaxChunks == 5   \* cap on the windows of a policy that cannot advance
MaxDocs == 2     \* an ingestion run reads 0..MaxDocs source rows or payloads
BigWindow == 8   \* a chunk window that holds every sample document whole

\* Python's None: no limit, no last value, no reported total, NULL column.
None == -1

Min(a, b) == IF a < b THEN a ELSE b
Max(a, b) == IF a > b THEN a ELSE b

\* ceil(a / b) for a >= 0, b >= 1
CeilDiv(a, b) == (a + b - 1) \div b

VARIABLES
    \* ---- fetch_rows: the remote table and the call's arguments
    table,          \* the rows matching `filters`, in the server's `order`
    ordSelected,    \* does `select` include the ordering column
    hasCount,       \* does the server answer with a Content-Range total
    srvMaxRows,     \* the server's cap on the rows of one answer, or None
    page_size,
    is_desc,
    limit,
    keyset0,        \* the use_keyset argument as passed
    \* ---- fetch_rows: locals
    use_keyset,
    all_rows,
    start,
    last_value,
    previous_last_value,
    remaining,
    total_rows,
    fpc,            \* "loop" | "done" | "raised"
    result,         \* the returned list (<<>> until the call returns)
    requests,       \* every list request sent, in order
    responses,      \* the answer to each request
    \* ---- insert_rows
    rows_list,      \* the rows to insert
    batch_size,
    ins_start,      \* the loop variable `start` of insert_rows
    posts,          \* every bulk-insert request sent, with its outcome
    store,          \* rows persisted in the remote table, in arrival order
    ipc,            \* "entry" | "loop" | "done" | "raised" | "idle"
    \* ---- chunk_text
    text,           \* the input string, a sequence of characters
    max_tokens,
    overlap,
    words,
    chunks,         \* the list being built, each chunk a string
    chunk_start,    \* the loop variable `start` of chunk_text
    windows,        \* the <<start, end>> of every pass of the loop
    cpc,            \* "entry" | "loop" | "done" | "idle"
    \* ---- ingest_species / ingest_uploads / ingest_web
    op,             \* "species" | "uploads" | "web" | "idle"
    docs,           \* the source: table rows by row id, or the web payloads
    doc_idx,        \* source rows the for loop is through with
    rows_to_insert,
    downloads,      \* every object-download request sent, with its outcome
    embed_calls,    \* every embedder.embed call: its inputs and outcome
    insert_calls,   \* calls of client.insert_rows
    gpc             \* "rows" | "chunk" | "write" | "done" | "raised" | "idle"

fetchVars == <<table, ordSelected, hasCount, srvMaxRows, page_size, is_desc, limit, keyset0,
               use_keyset, all_rows, start, last_value, previous_last_value,
               remaining, total_rows, fpc, result, requests, responses>>

insertVars == <<rows_list, batch_size, ins_start, posts, store, ipc>>

chunkVars == <<text, max_tokens, overlap, words, chunks, chunk_start, windows, cpc>>

ingestVars == <<op, docs, doc_idx, rows_to_insert, downloads, embed_calls,
                insert_calls, gpc>>

vars == <<fetchVars, insertVars, chunkVars, ingestVars>>

\* ------------------------------------------------------- the remote table
\* A row of the table: its identity and its ordering-column value.
Row(i, k) == [rid |-> i, ord |-> k]

\* ORDER BY col ASC puts NULLs last, ORDER BY col DESC puts them first.
Before(desc, a, b) ==
    IF desc THEN (a = None) \/ (b # None /\ a >= b)
            ELSE (b = None) \/ (a # None /\ a <= b)

Sorted(desc, ks) == \A i \in 1..(Len(ks) - 1) : Before(desc, ks[i], ks[i + 1])

Keys == {None} \cup (1..MaxKey)

Tables(desc) ==
    UNION { { [i \in 1..n |-> Row(i, ks[i])] : ks \in {k \in [1..n -> Keys] : Sorted(desc, k)} }
            : n \in 0..MaxRows }

\* ------------------------------------------------------------ fetch_rows
\* The row as the client sees it: without the ordering column when `select`
\* leaves it out (row.get(order_column) is then None).
Project(r) == IF ordSelected THEN r ELSE [rid |-> r.rid, ord |-> None]

ProjectAll(rows) == [i \in 1..Len(rows) |-> Project(rows[i])]

\* page_params["limit"]
PageLimit == IF remaining = None THEN page_size ELSE Min(page_size, remaining)

\* mutant: the direction of the order is ignored
PageFilterOp_AlwaysGt ==
    IF use_keyset /\ last_value # None THEN "gt" ELSE "none"

\* the keyset comparison of the request: "none", "gt" or "lt"
PageFilterOp ==
    IF use_keyset /\ last_value # None
    THEN (IF is_desc THEN "lt" ELSE "gt")
    ELSE "none"

PageFilterValue == IF use_keyset /\ last_value # None THEN last_value ELSE None

\* page_params["offset"], None when the request carries no offset
PageOffset == IF use_keyset THEN None ELSE start

PageParams ==
    [limit |-> PageLimit, offset |-> PageOffset,
     fop |-> PageFilterOp, fval |-> PageFilterValue]

\* Does a row pass the request's keyset comparison (NULL never compares).
Matches(r, p) ==
    CASE p.fop = "none" -> TRUE
      [] p.fop = "gt"   -> r.ord # None /\ r.ord > p.fval
      [] p.fop = "lt"   -> r.ord # None /\ r.ord < p.fval

\* The list endpoint: filter, then offset/limit, the limit cut to the
\* server's own row cap when it has one; the total counts the filtered rows
\* (Prefer: count=exact).
ServerList(p) ==
    LET m   == SelectSeq(table, LAMBDA r : Matches(r, p))
        off == IF p.offset = None THEN 0 ELSE p.offset
        lim == IF srvMaxRows = None THEN p.limit ELSE Min(p.limit, srvMaxRows)
    IN  [rows  |-> ProjectAll(SubSeq(m, off + 1, Min(off + lim, Len(m)))),
         total |-> IF hasCount THEN Len(m) ELSE None]

\* total_rows after the Content-Range header of a non-empty page was read
NewTotal(batch, reported) ==
    IF total_rows = None /\ reported # None /\ reported > start + Len(batch)
    THEN reported
    ELSE total_rows

\* mutant: the budget is not reduced by the page
NewRemaining_Stale(batch) == remaining

\* remaining after a non-empty page
NewRemaining(batch) ==
    IF remaining = None THEN None ELSE remaining - Len(batch)

\* mutant: the page stride is off by one
NextStart_Skips == start + page_size + 1

\* the offset of the next offset-mode page
NextStart == start + page_size

\* mutant: the offset is not moved to the rows already collected
FallbackStart_Zero(rows) == 0

\* `start` when keyset mode is abandoned
FallbackStart(rows) == Len(rows)

\* the offset-mode stop test, after start was advanced
OffsetStop(batch, tr, st) ==
    IF tr # None THEN st >= tr ELSE Len(batch) < page_size

\* insert_rows is not running
InsertIdle ==
    /\ rows_list = <<>>
    /\ batch_size = 1
    /\ ins_start = 0
    /\ posts = <<>>
    /\ store = <<>>
    /\ ipc = "idle"

\* chunk_text is not running
ChunkIdle ==
    /\ text = <<>>
    /\ max_tokens = 1
    /\ overlap = 0
    /\ words = <<>>
    /\ chunks = <<>>
    /\ chunk_start = 0
    /\ windows = <<>>
    /\ cpc = "idle"

\* no ingestion run is under way
IngestIdle ==
    /\ op = "idle"
    /\ docs = <<>>
    /\ doc_idx = 0
    /\ rows_to_insert = <<>>
    /\ downloads = <<>>
    /\ embed_calls = <<>>
    /\ insert_calls = 0
    /\ gpc = "idle"

FetchInit ==
    /\ InsertIdle
    /\ ChunkIdle
    /\ IngestIdle
    /\ is_desc \in BOOLEAN
    /\ table \in Tables(is_desc)
    /\ ordSelected \in BOOLEAN
    /\ hasCount \in BOOLEAN
    /\ srvMaxRows \in {None} \cup (1..MaxCap)
    /\ page_size \in 1..MaxPage
    /\ limit \in {None} \cup (0..MaxLimit)
    /\ keyset0 \in BOOLEAN
    /\ use_keyset = keyset0
    /\ all_rows = <<>>
    /\ start = 0
    /\ last_value = None
    /\ previous_last_value = None
    /\ remaining = limit
    /\ total_rows = None
    /\ fpc = "loop"
    /\ result = <<>>
    /\ requests = <<>>
    /\ responses = <<>>

\* One pass of the while loop whose request succeeds.
FetchPage ==
    /\ fpc = "loop"
    /\ LET p     == PageParams
           resp  == ServerList(p)
           batch == resp.rows
           rows  == all_rows \o batch
           tr    == NewTotal(batch, resp.total)
           rem   == NewRemaining(batch)
       IN
       /\ requests' = Append(requests, p)
       /\ responses' = Append(responses, [ok |-> TRUE, rows |-> batch])
       /\ IF batch = <<>>
          THEN /\ fpc' = "done"
               /\ result' = all_rows
               /\ UNCHANGED <<all_rows, use_keyset, start, last_value,
                              previous_last_value, remaining, total_rows>>
          ELSE /\ all_rows' = rows
               /\ total_rows' = tr
               /\ remaining' = rem
               /\ IF rem # None /\ rem <= 0
                  THEN /\ fpc' = "done"
                       /\ result' = rows
                       /\ UNCHANGED <<use_keyset, start, last_value, previous_last_value>>
                  ELSE IF use_keyset
                  THEN LET lv == batch[Len(batch)].ord IN
                       /\ last_value' = lv
                       /\ IF lv = None \/ lv = previous_last_value
                          THEN /\ use_keyset' = FALSE
                               /\ start' = FallbackStart(rows)
                               /\ UNCHANGED previous_last_value
                          ELSE /\ previous_last_value' = lv
                               /\ UNCHANGED <<use_keyset, start>>
                       /\ fpc' = "loop"
                       /\ UNCHANGED result
                  ELSE /\ start' = NextStart
                       /\ IF OffsetStop(batch, tr, NextStart)
                          THEN fpc' = "done" /\ result' = rows
                          ELSE fpc' = "loop" /\ UNCHANGED result
                       /\ UNCHANGED <<use_keyset, last_value, previous_last_value>>
    /\ UNCHANGED <<table, ordSelected, hasCount, srvMaxRows, page_size, is_desc, limit, keyset0>>
    /\ UNCHANGED <<insertVars, chunkVars, ingestVars>>

\* mutant: the error is swallowed and the loop goes on
OnHttpError_Retry == "loop"

\* What a non-success status does to the call: raise_for_status raises.
OnHttpError == "raised"

\* One pass of the while loop whose request gets a non-success status.
FetchPageError ==
    /\ fpc = "loop"
    /\ requests' = Append(requests, PageParams)
    /\ responses' = Append(responses, [ok |-> FALSE, rows |-> <<>>])
    /\ fpc' = OnHttpError
    /\ UNCHANGED <<table, ordSelected, hasCount, srvMaxRows, page_size, is_desc, limit, keyset0,
                   use_keyset, all_rows, start, last_value, previous_last_value,
                   remaining, total_rows, result>>
    /\ UNCHANGED <<insertVars, chunkVars, ingestVars>>

FetchNext == FetchPage \/ FetchPageError

SpecFetch == FetchInit /\ [][FetchNext]_vars

\* ----------------------------------------------------------- insert_rows
\* fetch_rows is not running
FetchIdle ==
    /\ table = <<>>
    /\ ordSelected = TRUE
    /\ hasCount = FALSE
    /\ srvMaxRows = None
    /\ page_size = 1
    /\ is_desc = FALSE
    /\ limit = None
    /\ keyset0 = FALSE
    /\ use_keyset = FALSE
    /\ all_rows = <<>>
    /\ start = 0
    /\ last_value = None
    /\ previous_last_value = None
    /\ remaining = None
    /\ total_rows = None
    /\ fpc = "idle"
    /\ result = <<>>
    /\ requests = <<>>
    /\ responses = <<>>

\* rows_list[start : start + batch_size]
BatchSlice(st) == SubSeq(rows_list, st + 1, Min(st + batch_size, Len(rows_list)))

\* mutant: the stride skips a row between batches
NextBatchStart_Skips(st) == st + batch_size + 1

\* the next value of range(0, len(rows_list), batch_size)
NextBatchStart(st) == st + batch_size

\* mutant: the error is swallowed and the loop moves on
OnInsertError_Continue == "loop"

\* What a non-success status does to the call: raise_for_status raises.
OnInsertError == "raised"

InsertInit ==
    /\ FetchIdle
    /\ ChunkIdle
    /\ IngestIdle
    /\ \E n \in 0..MaxInsRows : rows_list = [i \in 1..n |-> i]
    /\ batch_size \in 1..MaxBatch
    /\ ins_start = 0
    /\ posts = <<>>
    /\ store = <<>>
    /\ ipc = "entry"

\* rows_list = list(rows); if not rows_list: return
InsertEntry ==
    /\ ipc = "entry"
    /\ ipc' = IF rows_list = <<>> THEN "done" ELSE "loop"
    /\ UNCHANGED <<rows_list, batch_size, ins_start, posts, store>>
    /\ UNCHANGED <<fetchVars, chunkVars, ingestVars>>

\* One pass of the for loop whose request succeeds: the batch is persisted.
InsertBatch ==
    /\ ipc = "loop"
    /\ LET batch == BatchSlice(ins_start)
           next  == NextBatchStart(ins_start)
       IN
       /\ posts' = Append(posts, [ok |-> TRUE, batch |-> batch])
       /\ store' = store \o batch
       /\ ins_start' = next
       /\ ipc' = IF next < Len(rows_list) THEN "loop" ELSE "done"
    /\ UNCHANGED <<rows_list, batch_size>>
    /\ UNCHANGED <<fetchVars, chunkVars, ingestVars>>

\* One pass of the for loop whose request gets a non-success status.
InsertBatchError ==
    /\ ipc = "loop"
    /\ posts' = Append(posts, [ok |-> FALSE, batch |-> BatchSlice(ins_start)])
    /\ ipc' = OnInsertError
    /\ UNCHANGED <<rows_list, batch_size, ins_start, store>>
    /\ UNCHANGED <<fetchVars, chunkVars, ingestVars>>

InsertNext == InsertEntry \/ InsertBatch \/ InsertBatchError

SpecInsert == InsertInit /\ [][InsertNext]_vars

\* ------------------------------------------------------------ chunk_text
\* Strings are sequences of characters.
Whitespace == {" ", "\n"}
Alphabet == {"a", "b", " "}

Texts == UNION { [1..n -> Alphabet] : n \in 0..MaxTextLen }

\* str.split(): the maximal runs of non-whitespace characters, in order
RECURSIVE SplitFrom(_, _, _)
SplitFrom(t, i, cur) ==
    IF i > Len(t)
    THEN (IF cur = <<>> THEN <<>> ELSE <<cur>>)
    ELSE IF t[i] \in Whitespace
    THEN (IF cur = <<>> THEN <<>> ELSE <<cur>>) \o SplitFrom(t, i + 1, <<>>)
    ELSE SplitFrom(t, i + 1, Append(cur, t[i]))

Split(t) == SplitFrom(t, 1, <<>>)

\* " ".join(ws)
RECURSIVE Join(_)
Join(ws) ==
    IF ws = <<>> THEN <<>>
    ELSE IF Len(ws) = 1 THEN ws[1]
    ELSE ws[1] \o <<" ">> \o Join(Tail(ws))

\* str.strip()
RECURSIVE Strip(_)
Strip(t) ==
    IF t = <<>> THEN <<>>
    ELSE IF t[1] \in Whitespace THEN Strip(Tail(t))
    ELSE IF t[Len(t)] \in Whitespace THEN Strip(SubSeq(t, 1, Len(t) - 1))
    ELSE t

\* mutant: the window is one word too wide
WindowEnd_Wide(st) == Min(st + max_tokens + 1, Len(words))

\* end = min(start + config.max_tokens, len(words))
WindowEnd(st) == Min(st + max_tokens, Len(words))

\* " ".join(words[start:end]).strip()
WindowChunk(st, en) == Strip(Join(SubSeq(words, st + 1, en)))

\* mutant: the next window steps back by the whole window
NextWindowStart_Stuck(en) == Max(en - max_tokens, 0)

\* mutant: the next window does not step back by the overlap
NextWindowStart_NoOverlap(en) == en

\* start = max(end - config.overlap, 0)
NextWindowStart(en) == Max(en - overlap, 0)

\* ChunkingConfig(max_tokens, overlap): a frozen dataclass of two fields
\* with no check of its own, so every pair of values builds a policy.
ChunkingConfig(mt, ov) == TRUE

ChunkInit ==
    /\ FetchIdle
    /\ InsertIdle
    /\ IngestIdle
    /\ text \in Texts
    /\ max_tokens \in 1..MaxTokens
    /\ overlap \in 0..MaxTokens
    /\ ChunkingConfig(max_tokens, overlap)
    /\ words = <<>>
    /\ chunks = <<>>
    /\ chunk_start = 0
    /\ windows = <<>>
    /\ cpc = "entry"

\* words = text.split(); if not words: return []
ChunkEntry ==
    /\ cpc = "entry"
    /\ words' = Split(text)
    /\ cpc' = IF Split(text) = <<>> THEN "done" ELSE "loop"
    /\ UNCHANGED <<text, max_tokens, overlap, chunks, chunk_start, windows>>
    /\ UNCHANGED <<fetchVars, insertVars, ingestVars>>

\* One pass of the while loop (start < len(words) holds on every entry).
ChunkWindow ==
    /\ cpc = "loop"
    /\ chunk_start < Len(words)
    /\ Len(windows) < MaxChunks
    /\ LET en    == WindowEnd(chunk_start)
           chunk == WindowChunk(chunk_start, en)
       IN
       /\ windows' = Append(windows, <<chunk_start, en>>)
       /\ chunks' = IF chunk # <<>> THEN Append(chunks, chunk) ELSE chunks
       /\ IF en = Len(words)
          THEN cpc' = "done" /\ UNCHANGED chunk_start
          ELSE cpc' = "loop" /\ chunk_start' = NextWindowStart(en)
    /\ UNCHANGED <<text, max_tokens, overlap, words>>
    /\ UNCHANGED <<fetchVars, insertVars, ingestVars>>

ChunkNext == ChunkEntry \/ ChunkWindow

SpecChunk == ChunkInit /\ [][ChunkNext]_vars

\* ------------------------------------------- ingest_species/uploads/web
\* A string-valued field that is None (row.get of a missing or NULL column).
NoneStr == <<"None">>

\* Python truth of a string or list field / of an identifier
Truthy(v) == v # NoneStr /\ v # <<>>
TruthyId(v) == v # None /\ v # 0

\* sep.join(parts)
RECURSIVE JoinWith(_, _)
JoinWith(sep, parts) ==
    IF parts = <<>> THEN <<>>
    ELSE IF Len(parts) = 1 THEN parts[1]
    ELSE parts[1] \o sep \o JoinWith(sep, Tail(parts))

\* build_species_text: the header, then one line per truthy field
build_species_text(row) ==
    LET line(cond, s) == IF cond THEN <<s>> ELSE <<>>
        parts ==
           <<<<"S", "p", "e", "c", "i", "e", "s", " ", "P", "r", "o", "f", "i", "l", "e">>>>
           \o line(Truthy(row.genus), <<"G", "e", "n", "u", "s", ":", " ">> \o row.genus)
           \o line(Truthy(row.species), <<"S", "p", "e", "c", "i", "e", "s", ":", " ">> \o row.species)
           \o line(Truthy(row.code), <<"C", "o", "d", "e", ":", " ">> \o row.code)
           \o line(Truthy(row.common_name), <<"C", "o", "m", "m", "o", "n", " ", "n", "a", "m", "e", ":", " ">> \o row.common_name)
           \o line(Truthy(row.family), <<"F", "a", "m", "i", "l", "y", ":", " ">> \o row.family)
           \o line(Truthy(row.class_name), <<"C", "l", "a", "s", "s", ":", " ">> \o row.class_name)
           \o line(Truthy(row.tags), <<"T", "a", "g", "s", ":", " ">> \o JoinWith(<<",", " ">>, row.tags))
    IN  JoinWith(<<"\n">>, parts)

\* SpeciesRow with every optional field None
BlankSpecies ==
    [genus |-> NoneStr, species |-> NoneStr, code |-> NoneStr,
     common_name |-> NoneStr, family |-> NoneStr, class_name |-> NoneStr,
     tags |-> NoneStr, updated_at |-> NoneStr]

\* rows of the species table
SpeciesSamples ==
    { BlankSpecies,
      [BlankSpecies EXCEPT !.genus = <<"q">>, !.tags = << <<"o">>, <<"h">> >>,
                           !.updated_at = <<"t">>],
      [BlankSpecies EXCEPT !.species = <<"a">>, !.code = <<"k">>],
      [BlankSpecies EXCEPT !.common_name = <<"w", " ", "o">>, !.family = <<"f">>],
      [BlankSpecies EXCEPT !.class_name = <<"c">>, !.tags = <<>>],
      [BlankSpecies EXCEPT !.genus = <<>>, !.family = <<"f">>] }

\* rows of the files table: are id and user_id set, and the text that
\* extract_text_from_bytes gives for the stored object
UploadSamples ==
    { [has_id |-> TRUE,  has_user |-> TRUE,  text |-> <<"a", " ", "b", " ", "a", " ", "b">>],
      [has_id |-> TRUE,  has_user |-> TRUE,  text |-> <<"a", "\n", "b">>],
      [has_id |-> TRUE,  has_user |-> TRUE,  text |-> <<>>],
      [has_id |-> FALSE, has_user |-> TRUE,  text |-> <<"a">>],
      [has_id |-> TRUE,  has_user |-> FALSE, text |-> <<"a">>] }

\* web payloads: the "content" entry
WebSamples ==
    { [content |-> NoneStr],
      [content |-> <<>>],
      [content |-> <<" ", " ">>],
      [content |-> <<"b">>],
      [content |-> <<"a", " ", "b", " ", "a", " ", "b">>] }

SamplesOf(o) ==
    CASE o = "species" -> SpeciesSamples
      [] o = "uploads" -> UploadSamples
      [] o = "web"     -> WebSamples

\* the chunking policies of the entry operations, scaled to the sample
\* documents: one window that holds a whole document, one that does not
IngestPolicies ==
    { [max_tokens |-> BigWindow, overlap |-> 1],
      [max_tokens |-> MaxTokens, overlap |-> 1] }

\* The source rows the for loop runs over: load_species_rows(client) /
\* client.fetch_rows("files"), or the payloads handed to ingest_web.
SourceReady == op = "web" \/ fpc = "done"

Source ==
    IF op = "web"
    THEN [i \in 1..Len(docs) |-> [idx |-> i, doc |-> docs[i]]]
    ELSE [i \in 1..Len(result) |-> [idx |-> result[i].rid, doc |-> docs[result[i].rid]]]

\* row.get("id") / row.get("user_id") of a files row
FileId(e) == IF e.doc.has_id THEN e.idx ELSE None
UserId(e) == IF e.doc.has_user THEN e.idx ELSE None

\* mutant: only the file identifier is tested
Skipped_IdOnly(e) ==
    CASE op = "species" -> FALSE
      [] op = "uploads" -> ~TruthyId(FileId(e))
      [] op = "web"     -> ~Truthy(e.doc.content)

\* does the for loop `continue` on this source row
Skipped(e) ==
    CASE op = "species" -> FALSE
      [] op = "uploads" -> ~TruthyId(FileId(e)) \/ ~TruthyId(UserId(e))
      [] op = "web"     -> ~Truthy(e.doc.content)

\* the text handed to chunk_text
DocText(e) ==
    CASE op = "species" -> build_species_text(e.doc)
      [] op = "uploads" -> e.doc.text
      [] op = "web"     -> e.doc.content

\* storage_path = f"{user_id}/{file_id}"
StoragePath(e) == <<UserId(e), "/", FileId(e)>>

\* EmbeddingProvider.embed: one vector per text, fixed by the text
Embed(cs) == [i \in 1..Len(cs) |-> [vector_of |-> cs[i]]]

\* mutant: chunk ids count from one
ChunkId_OneBased(id, idx) == <<id, ":", idx + 1>>

\* f"{row.id}:{idx}"
ChunkId(id, idx) == <<id, ":", idx>>

\* mutant: the last pair is lost
Zipped_DropsLast(cs, es) == Min(Len(cs), Len(es)) - 1

\* the number of pairs of zip(chunks, embeddings)
Zipped(cs, es) == Min(Len(cs), Len(es))

\* the dict appended for pair number idx (from 0) of a document
OutputRow(e, idx, chunk, embedding) ==
    CASE op = "species" ->
           [species_id |-> e.idx, chunk_id |-> ChunkId(e.idx, idx),
            content |-> chunk, embedding |-> embedding,
            source |-> "canonical", version |-> e.doc.updated_at]
      [] op = "uploads" ->
           [user_id |-> UserId(e), file_id |-> FileId(e),
            chunk_id |-> ChunkId(FileId(e), idx),
            content |-> chunk, embedding |-> embedding, origin |-> "user"]
      [] op = "web" ->
           [url |-> e.idx, content |-> chunk, embedding |-> embedding,
            origin |-> "web", chunk_index |-> idx]

\* for idx, (chunk, embedding) in enumerate(zip(chunks, embeddings))
DocRows(e, cs, es) ==
    [i \in 1..Zipped(cs, es) |-> OutputRow(e, i - 1, cs[i], es[i])]

\* mutant: the writer is called whatever the rows
ShouldWrite_Always(rows) == TRUE

\* if rows_to_insert:
ShouldWrite(rows) == rows # <<>>

\* mutant: the writer call sits inside the for loop
LoopOver_Early == SourceReady /\ doc_idx >= 1

\* the for loop over the source rows has ended
LoopOver == SourceReady /\ doc_idx = Len(Source)

IngestInit ==
    /\ op \in {"species", "uploads", "web"}
    /\ \E n \in 0..MaxDocs : docs \in [1..n -> SamplesOf(op)]
    /\ doc_idx = 0
    /\ rows_to_insert = <<>>
    /\ downloads = <<>>
    /\ embed_calls = <<>>
    /\ insert_calls = 0
    /\ gpc = "rows"
    \* chunking = ChunkingConfig(max_tokens=..., overlap=...)
    /\ \E c \in IngestPolicies :
          /\ max_tokens = c.max_tokens
          /\ overlap = c.overlap
          /\ ChunkingConfig(c.max_tokens, c.overlap)
    /\ text = <<>>
    /\ words = <<>>
    /\ chunks = <<>>
    /\ chunk_start = 0
    /\ windows = <<>>
    /\ cpc = "idle"
    \* client.fetch_rows(table, select="*"): offset mode, ordered by id
    /\ table = IF op = "web" THEN <<>> ELSE [i \in 1..Len(docs) |-> Row(i, i)]
    /\ ordSelected = TRUE
    /\ hasCount \in (IF op = "web" THEN {FALSE} ELSE BOOLEAN)
    /\ srvMaxRows = None
    /\ page_size \in (IF op = "web" THEN {1} ELSE {1, MaxPage})
    /\ is_desc = FALSE
    /\ limit = None
    /\ keyset0 = FALSE
    /\ use_keyset = FALSE
    /\ all_rows = <<>>
    /\ start = 0
    /\ last_value = None
    /\ previous_last_value = None
    /\ remaining = None
    /\ total_rows = None
    /\ fpc = IF op = "web" THEN "idle" ELSE "loop"
    /\ result = <<>>
    /\ requests = <<>>
    /\ responses = <<>>
    \* client.insert_rows(table, rows_to_insert) is yet to be called
    /\ rows_list = <<>>
    /\ batch_size \in {1, MaxBatch}
    /\ ins_start = 0
    /\ posts = <<>>
    /\ store = <<>>
    /\ ipc = "idle"

\* One pass of the for loop up to the call of chunk_text: the row is
\* skipped, or its object is downloaded and its text built.
IngestDoc ==
    /\ gpc = "rows"
    /\ SourceReady
    /\ doc_idx < Len(Source)
    /\ LET e == Source[doc_idx + 1] IN
       IF Skipped(e)
       THEN /\ doc_idx' = doc_idx + 1
            /\ UNCHANGED <<gpc, downloads, chunkVars>>
       ELSE /\ gpc' = "chunk"
            /\ downloads' = IF op = "uploads"
                            THEN Append(downloads, [path |-> StoragePath(e), ok |-> TRUE])
                            ELSE downloads
            /\ text' = DocText(e)
            /\ words' = <<>>
            /\ chunks' = <<>>
            /\ chunk_start' = 0
            /\ windows' = <<>>
            /\ cpc' = "entry"
            /\ UNCHANGED <<doc_idx, max_tokens, overlap>>
    /\ UNCHANGED <<op, docs, rows_to_insert, embed_calls, insert_calls>>
    /\ UNCHANGED <<fetchVars, insertVars>>

\* download_storage_object gets a non-success status: the run raises.
IngestDownloadError ==
    /\ gpc = "rows"
    /\ op = "uploads"
    /\ SourceReady
    /\ doc_idx < Len(Source)
    /\ ~Skipped(Source[doc_idx + 1])
    /\ downloads' = Append(downloads, [path |-> StoragePath(Source[doc_idx + 1]),
                                       ok |-> FALSE])
    /\ gpc' = "raised"
    /\ UNCHANGED <<op, docs, doc_idx, rows_to_insert, embed_calls, insert_calls>>
    /\ UNCHANGED <<fetchVars, insertVars, chunkVars>>

\* extract_text_from_bytes raises on the downloaded bytes: the run raises.
IngestExtractError ==
    /\ gpc = "rows"
    /\ op = "uploads"
    /\ SourceReady
    /\ doc_idx < Len(Source)
    /\ ~Skipped(Source[doc_idx + 1])
    /\ downloads' = Append(downloads, [path |-> StoragePath(Source[doc_idx + 1]),
                                       ok |-> TRUE])
    /\ gpc' = "raised"
    /\ UNCHANGED <<op, docs, doc_idx, rows_to_insert, embed_calls, insert_calls>>
    /\ UNCHANGED <<fetchVars, insertVars, chunkVars>>

\* The rest of the pass: chunk_text has returned, the chunks are embedded
\* and one row per (chunk, embedding) pair is appended.
IngestEmbed ==
    /\ gpc = "chunk"
    /\ cpc = "done"
    /\ LET e == Source[doc_idx + 1] IN
       /\ embed_calls' = Append(embed_calls, [doc |-> doc_idx + 1, inputs |-> chunks,
                                              ok |-> TRUE])
       /\ rows_to_insert' = rows_to_insert \o DocRows(e, chunks, Embed(chunks))
    /\ doc_idx' = doc_idx + 1
    /\ gpc' = "rows"
    /\ UNCHANGED <<op, docs, downloads, insert_calls>>
    /\ UNCHANGED <<fetchVars, insertVars, chunkVars>>

\* embedder.embed raises: the run raises.
IngestEmbedError ==
    /\ gpc = "chunk"
    /\ cpc = "done"
    /\ embed_calls' = Append(embed_calls, [doc |-> doc_idx + 1, inputs |-> chunks,
                                           ok |-> FALSE])
    /\ gpc' = "raised"
    /\ UNCHANGED <<op, docs, doc_idx, rows_to_insert, downloads, insert_calls>>
    /\ UNCHANGED <<fetchVars, insertVars, chunkVars>>

\* After the loop: if rows_to_insert: client.insert_rows(...)
IngestWrite ==
    /\ gpc = "rows"
    /\ LoopOver
    /\ IF ShouldWrite(rows_to_insert)
       THEN /\ gpc' = "write"
            /\ insert_calls' = insert_calls + 1
            /\ rows_list' = rows_to_insert
            /\ ins_start' = 0
            /\ ipc' = "entry"
            /\ UNCHANGED <<batch_size, posts, store>>
       ELSE /\ gpc' = "done"
            /\ UNCHANGED <<insert_calls, insertVars>>
    /\ UNCHANGED <<op, docs, doc_idx, rows_to_insert, downloads, embed_calls>>
    /\ UNCHANGED <<fetchVars, chunkVars>>

IngestNext ==
    \/ FetchPage \/ FetchPageError
    \/ IngestDoc \/ IngestDownloadError \/ IngestExtractError
    \/ ChunkEntry \/ ChunkWindow
    \/ IngestEmbed \/ IngestEmbedError
    \/ IngestWrite
    \/ InsertEntry \/ InsertBatch \/ InsertBatchError

SpecIngest == IngestInit /\ [][IngestNext]_vars

\* an entry operation, or insert_rows called on its own
SpecWriter == (IngestInit \/ InsertInit) /\ [][IngestNext]_vars

\* ------------------------------------------------------ the whole program
Init == FetchInit \/ InsertInit \/ ChunkInit \/ IngestInit

Next == FetchNext \/ InsertNext \/ ChunkNext \/ IngestNext

Spec == Init /\ [][Next]_vars

\* ------------------------------------------------- fetch_rows: properties
\* rows handed to the caller by the first n answers
RECURSIVE Collected(_)
Collected(n) == IF n = 0 THEN 0 ELSE Collected(n - 1) + Len(responses[n].rows)

\* the table as the caller should receive it
Expected == ProjectAll(table)

\* the server returns exactly the slice each request asks for
ExactServer == srvMaxRows = None

\* answer i closed a keyset-mode page whose last row has no ordering value
NullEndedKeysetPage(i) ==
    /\ requests[i].offset = None
    /\ responses[i].ok
    /\ responses[i].rows # <<>>
    /\ responses[i].rows[Len(responses[i].rows)].ord = None

\* C1: offset mode without a row limit returns every row of a static table
\* exactly once and in the server's order, for every table size and page
\* size, with or without a reported total.
Thm_C1_OffsetReturnsAll ==
    (fpc = "done" /\ ~keyset0 /\ limit = None /\ ExactServer) => result = Expected

Wit_C1_OffsetReturnsAll ==
    /\ fpc = "done" /\ ~keyset0 /\ limit = None /\ ExactServer
    /\ Len(requests) >= 2
    /\ Len(table) > page_size
    /\ result = Expected

\* C2: keyset mode over a table whose ordering column has equal values on
\* both sides of the first page boundary still returns every row exactly once.
CE_C2_KeysetTiesReturnAll ==
    ( /\ fpc = "done" /\ keyset0 /\ limit = None /\ ordSelected /\ ExactServer
      /\ \A i \in 1..Len(table) : table[i].ord # None
      /\ Len(table) > page_size
      /\ table[page_size].ord = table[page_size + 1].ord )
    => result = Expected

\* C3: when a keyset-mode page ends in a row without ordering value, the
\* next request carries no keyset comparison and its offset is the number of
\* rows collected so far; without a row limit the call then returns every
\* row exactly once.
Thm_C3_NullFallback ==
    /\ \A i \in 1..(Len(requests) - 1) :
          NullEndedKeysetPage(i) =>
             /\ requests[i + 1].fop = "none"
             /\ requests[i + 1].fval = None
             /\ requests[i + 1].offset = Collected(i)
    /\ ( /\ fpc = "done" /\ limit = None /\ ExactServer
         /\ \E i \in 1..Len(requests) : NullEndedKeysetPage(i) )
       => result = Expected

Wit_C3_NullFallback ==
    /\ fpc = "done" /\ limit = None /\ keyset0 /\ ordSelected /\ ExactServer
    /\ Len(requests) >= 2
    /\ NullEndedKeysetPage(1)
    /\ requests[2].offset = Len(responses[1].rows)
    /\ responses[2].rows # <<>>
    /\ result = Expected

\* C4: with a row limit L every list request asks for min(page_size, L minus
\* the rows collected so far) rows, in both modes and across a fallback, and
\* the call never holds or returns more than L rows.
Thm_C4_LimitBoundsPages ==
    limit # None =>
       /\ \A i \in 1..Len(requests) :
             requests[i].limit = Min(page_size, limit - Collected(i - 1))
       /\ Len(all_rows) <= limit
       /\ Len(result) <= limit

Wit_C4_LimitBoundsPages ==
    /\ fpc = "done" /\ limit # None /\ keyset0
    /\ Len(requests) >= 2
    /\ requests[2].offset # None
    /\ requests[2].limit < page_size
    /\ Len(result) = limit

\* C5: with an exact reported total, offset mode without a row limit issues
\* exactly ceil(N / page_size) list requests for a table of N >= 1 rows.
CE_C5_OffsetRequestCount ==
    ( /\ fpc = "done" /\ ~keyset0 /\ limit = None /\ hasCount /\ ExactServer
      /\ Len(table) >= 1 )
    => Len(requests) = CeilDiv(Len(table), page_size)

\* C8: a list request with a non-success status ends the call at once: the
\* call raises, hands back no rows, sends nothing more, and the failed
\* request is sent once.
Thm_C8_FetchErrorIsFatal ==
    /\ \A i \in 1..Len(responses) :
          ~responses[i].ok => (i = Len(responses) /\ fpc = "raised")
    /\ fpc = "raised" =>
          /\ ~responses[Len(responses)].ok
          /\ result = <<>>
          /\ ~ENABLED FetchNext

Wit_C8_FetchErrorIsFatal ==
    /\ fpc = "raised"
    /\ Len(requests) >= 2
    /\ all_rows # <<>>
    /\ result = <<>>

\* the ordering-column values are present, non-null and pairwise distinct
DistinctKeys ==
    /\ ordSelected
    /\ \A i \in 1..Len(table) : table[i].ord # None
    /\ \A i, j \in 1..Len(table) : i # j => table[i].ord # table[j].ord

\* C16: keyset mode over pairwise distinct non-null ordering values, without
\* a row limit: every request after the first filters strictly beyond the
\* last ordering value of the page before it (gt ascending, lt descending),
\* no request carries an offset, the call goes on after every non-empty page
\* (also one shorter than page_size) and stops at the first empty page, and
\* it returns every row exactly once in the server's order.
Thm_C16_KeysetDistinct ==
    (keyset0 /\ limit = None /\ DistinctKeys) =>
       /\ \A i \in 1..Len(requests) :
             /\ requests[i].offset = None
             /\ IF i = 1
                THEN requests[i].fop = "none"
                ELSE /\ requests[i].fop = (IF is_desc THEN "lt" ELSE "gt")
                     /\ requests[i].fval =
                           responses[i - 1].rows[Len(responses[i - 1].rows)].ord
       /\ \A i \in 1..(Len(responses) - 1) : responses[i].rows # <<>>
       /\ (fpc = "loop" /\ responses # <<>>) =>
             responses[Len(responses)].rows # <<>>
       /\ fpc = "done" =>
             /\ responses[Len(responses)].rows = <<>>
             /\ result = Expected

Wit_C16_KeysetDistinct ==
    /\ fpc = "done" /\ keyset0 /\ limit = None /\ DistinctKeys /\ ExactServer
    /\ is_desc
    /\ Len(requests) = 3
    /\ Len(responses[2].rows) < page_size
    /\ result = Expected

\* C17: every offset-mode list request carries as offset the number of rows
\* collected so far, whatever the earlier pages returned.
CE_C17_OffsetIsCollected ==
    \A i \in 1..Len(requests) :
       requests[i].offset # None => requests[i].offset = Collected(i - 1)

\* C19: the call ends after finitely many requests (every request adds one
\* to the log, and the log never holds more than one request more than the
\* table has rows); the mode changes only from keyset to offset, so at most
\* once, and a call started in offset mode sends no keyset comparison.
Thm_C19_FetchTerminates ==
    /\ Len(requests) <= Len(table) + 1
    /\ use_keyset => keyset0
    /\ \A i, j \in 1..Len(requests) :
          (i < j /\ requests[i].offset # None) =>
             (requests[j].offset # None /\ requests[j].fop = "none")
    /\ ~keyset0 =>
          \A i \in 1..Len(requests) :
             requests[i].fop = "none" /\ requests[i].offset # None

Wit_C19_FetchTerminates ==
    /\ fpc = "done" /\ keyset0
    /\ Len(requests) >= 3
    /\ requests[1].offset = None
    /\ requests[2].offset # None
    /\ requests[3].offset # None

\* ------------------------------------------------ insert_rows: properties
\* the batches of the first n bulk-insert requests, concatenated
RECURSIVE Posted(_)
Posted(n) == IF n = 0 THEN <<>> ELSE Posted(n - 1) \o posts[n].batch

\* C6: n >= 1 rows with batch size b are sent in exactly ceil(n / b)
\* requests; the batches are consecutive slices of the input, each but the
\* last of b rows, none empty, and in request order they concatenate to the
\* input.
Thm_C6_InsertBatches ==
    /\ \A i \in 1..Len(posts) :
          /\ posts[i].batch # <<>>
          /\ posts[i].batch =
                SubSeq(rows_list, (i - 1) * batch_size + 1,
                       Min(i * batch_size, Len(rows_list)))
    /\ (ipc = "done" /\ Len(rows_list) >= 1) =>
          /\ Len(posts) = CeilDiv(Len(rows_list), batch_size)
          /\ \A i \in 1..(Len(posts) - 1) : Len(posts[i].batch) = batch_size
          /\ Posted(Len(posts)) = rows_list

Wit_C6_InsertBatches ==
    /\ ipc = "done"
    /\ Len(posts) = 3
    /\ Len(posts[3].batch) < batch_size
    /\ Posted(3) = rows_list

\* C7: when the k-th batch request fails the call raises at once: batches
\* 1..k-1 stay persisted, the failed batch is sent once and persists nothing,
\* and no later batch is sent.
Thm_C7_InsertErrorIsFatal ==
    /\ \A i \in 1..Len(posts) :
          ~posts[i].ok => (i = Len(posts) /\ ipc = "raised")
    /\ ipc = "raised" =>
          LET k == Len(posts) IN
          /\ ~posts[k].ok
          /\ store = Posted(k - 1)
          /\ store = SubSeq(rows_list, 1, (k - 1) * batch_size)
          /\ \A i \in 1..(k - 1) : posts[i].batch # posts[k].batch
          /\ ~ENABLED InsertNext

Wit_C7_InsertErrorIsFatal ==
    /\ ipc = "raised"
    /\ Len(posts) = 2
    /\ store # <<>>
    /\ Len(store) + Len(posts[2].batch) < Len(rows_list)

\* ------------------------------------------------- chunk_text: properties
\* the policy satisfies 0 <= overlap < max_tokens
ValidPolicy == 0 <= overlap /\ overlap < max_tokens

\* the number of words of t: the positions where a word begins
WordCount(t) ==
    Cardinality({i \in 1..Len(t) :
                    /\ t[i] \notin Whitespace
                    /\ (i = 1 \/ t[i - 1] \in Whitespace)})

\* ws without its first k words
Drop(ws, k) == SubSeq(ws, k + 1, Len(ws))

\* all words of the first chunk, then each later chunk's words after its
\* first `overlap` words, for the first n chunks
RECURSIVE UniqueSpans(_)
UniqueSpans(n) ==
    IF n = 0 THEN <<>>
    ELSE IF n = 1 THEN Split(chunks[1])
    ELSE UniqueSpans(n - 1) \o Drop(Split(chunks[n]), overlap)

\* C9: under a valid policy a text of n words gives 0 chunks if n = 0, one
\* chunk if 1 <= n <= max_tokens, and ceil((n - overlap) / (max_tokens -
\* overlap)) chunks if n > max_tokens.
Thm_C9_ChunkCount ==
    (cpc = "done" /\ ValidPolicy) =>
       LET n == WordCount(text) IN
       Len(chunks) =
          IF n = 0 THEN 0
          ELSE IF n <= max_tokens THEN 1
          ELSE CeilDiv(n - overlap, max_tokens - overlap)

Wit_C9_ChunkCount ==
    /\ cpc = "done" /\ ValidPolicy
    /\ overlap >= 1
    /\ WordCount(text) > max_tokens
    /\ Len(chunks) = 3

\* C10: under a valid policy the words of the first chunk followed by the
\* words after the first `overlap` of every later chunk, in chunk order, are
\* exactly the words of the text.
Thm_C10_ChunksReconstruct ==
    (cpc = "done" /\ ValidPolicy) => UniqueSpans(Len(chunks)) = Split(text)

Wit_C10_ChunksReconstruct ==
    /\ cpc = "done" /\ ValidPolicy
    /\ overlap >= 1
    /\ Len(chunks) >= 2
    /\ \E i, j \in 1..Len(words) : words[i] # words[j]
    /\ UniqueSpans(Len(chunks)) = Split(text)

\* C11: a policy with overlap >= max_tokens cannot be built, so chunk_text
\* never runs a window under such a policy.
CE_C11_InvalidPolicyRejected ==
    windows # <<>> => overlap < max_tokens

\* C18: under a valid policy the first window starts at word 0 and each
\* later one max_tokens - overlap words after the one before; every window
\* gives one chunk of 1..max_tokens words; no window before the last reaches
\* the last word and the loop ends with the window that does, after at most
\* as many windows as there are words.
Thm_C18_ChunkTerminates ==
    ValidPolicy =>
       /\ \A i \in 1..Len(windows) :
             /\ windows[i][1] = (i - 1) * (max_tokens - overlap)
             /\ windows[i][2] - windows[i][1] \in 1..max_tokens
             /\ Len(Split(chunks[i])) = windows[i][2] - windows[i][1]
       /\ Len(chunks) = Len(windows)
       /\ Len(windows) <= Len(words)
       /\ \A i \in 1..(Len(windows) - 1) : windows[i][2] < Len(words)
       /\ cpc = "loop" =>
             /\ ENABLED ChunkWindow
             /\ windows # <<>> => windows[Len(windows)][2] < Len(words)
       /\ (cpc = "done" /\ words # <<>>) =>
             /\ windows[Len(windows)][2] = Len(words)
             /\ ~ENABLED ChunkNext

Wit_C18_ChunkTerminates ==
    /\ cpc = "done" /\ ValidPolicy
    /\ overlap >= 1
    /\ Len(windows) = 3
    /\ windows[3][2] = Len(words)

\* ------------------------------------------------- claims on the pipeline
\* the entry operation has returned
RunDone == gpc = "done" \/ (gpc = "write" /\ ipc = "done")

\* t with every run of whitespace between words made one space and the
\* whitespace at its ends removed
RECURSIVE CollapseFrom(_, _, _)
CollapseFrom(t, i, started) ==
    IF i > Len(t) THEN <<>>
    ELSE IF t[i] \in Whitespace THEN CollapseFrom(t, i + 1, started)
    ELSE (IF started /\ t[i - 1] \in Whitespace THEN <<" ", t[i]>> ELSE <<t[i]>>)
         \o CollapseFrom(t, i + 1, TRUE)

Collapse(t) == CollapseFrom(t, 1, FALSE)

\* the profile text of the record behind embedder call c
ProfileOf(c) == build_species_text(Source[c.doc].doc)

\* the rows of record number id in a row sequence
SpeciesRowsOf(rows, id) == SelectSeq(rows, LAMBDA r : r.species_id = id)

\* C12 as stated: for a canonical record whose profile text has no more
\* words than the chunk window, the one row's content equals the full
\* profile text (newlines kept).
CE_C12_ContentIsProfile ==
    op = "species" =>
        \A j \in 1..Len(embed_calls) :
            LET c == embed_calls[j] IN
            (c.ok /\ WordCount(ProfileOf(c)) <= max_tokens) =>
                \A r \in {SpeciesRowsOf(rows_to_insert, Source[c.doc].idx)[k] :
                          k \in 1..Len(SpeciesRowsOf(rows_to_insert, Source[c.doc].idx))} :
                    r.content = ProfileOf(c)

\* C12 (amended): for a canonical record whose profile text has no more
\* words than the chunk window, ingest_species makes exactly one embedder
\* call for the record, with one input; the record gets exactly one output
\* row, whose content is the profile text with each whitespace run (the
\* newlines between its lines) turned into a single space, and whose
\* chunk_id is the record id followed by ":0"; when the run returns, that
\* row and no other row of the record is in the store.
Thm_C12_SingleChunkProfile ==
    op = "species" =>
        \A j \in 1..Len(embed_calls) :
            LET c       == embed_calls[j]
                id      == Source[c.doc].idx
                mine    == SpeciesRowsOf(rows_to_insert, id)
                profile == ProfileOf(c)
            IN  WordCount(profile) <= max_tokens =>
                /\ c.inputs = <<Collapse(profile)>>
                /\ \A k \in 1..Len(embed_calls) : embed_calls[k].doc = c.doc => k = j
                /\ c.ok =>
                    /\ Len(mine) = 1
                    /\ mine[1].content = c.inputs[1]
                    /\ mine[1].chunk_id = <<id, ":", 0>>
                    /\ mine[1].embedding = Embed(c.inputs)[1]
                /\ RunDone => SpeciesRowsOf(store, id) = mine

\* a finished run over two records that each fit the window, the second
\* with a profile of several lines, both written
Wit_C12_SingleChunkProfile ==
    /\ op = "species"
    /\ RunDone
    /\ Len(docs) = 2
    /\ Len(embed_calls) = 2
    /\ \A j \in 1..2 : WordCount(ProfileOf(embed_calls[j])) <= max_tokens
    /\ "\n" \in {ProfileOf(embed_calls[2])[i] : i \in 1..Len(ProfileOf(embed_calls[2]))}
    /\ Len(store) = 2
    /\ store[2].chunk_id = <<Source[2].idx, ":", 0>>

\* C13: an entry operation that ends with zero output rows (no source
\* rows, every row skipped, or every document without chunks) has not
\* called the writer and no bulk-insert request was issued; and a call of
\* insert_rows with an empty row sequence issues no request.
Thm_C13_NoRowsNoWrite ==
    /\ (gpc # "idle" /\ rows_to_insert = <<>>) =>
          /\ insert_calls = 0
          /\ ipc = "idle"
          /\ posts = <<>>
          /\ store = <<>>
    /\ (gpc # "idle" /\ LoopOver /\ rows_to_insert = <<>>) => gpc \in {"rows", "done"}
    /\ (gpc # "idle" /\ posts # <<>>) => insert_calls = 1
    /\ rows_list = <<>> => (posts = <<>> /\ store = <<>> /\ ipc # "raised")

\* a finished web run of two payloads, one skipped and one embedded with
\* no chunk, that ended without a writer call
Wit_C13_NoRowsNoWrite ==
    /\ op = "web"
    /\ gpc = "done"
    /\ Len(docs) = 2
    /\ Len(embed_calls) = 1
    /\ embed_calls[1].inputs = <<>>
    /\ rows_to_insert = <<>>
    /\ insert_calls = 0
    /\ posts = <<>>

\* a files row with both identifiers
HasBothIds(e) == e.doc.has_id /\ e.doc.has_user

\* the source rows the for loop has begun
Started == doc_idx + (IF gpc \in {"chunk", "raised"} THEN 1 ELSE 0)

\* C14: in ingest_uploads the download requests are, in order, one for
\* each file row with both identifiers the loop has come to, and none for
\* a row lacking one; no output row belongs to a row lacking one; the run
\* never raises on such a row and goes on to the row after it.
Thm_C14_SkipsIncompleteRows ==
    op = "uploads" =>
        /\ ~SourceReady => (downloads = <<>> /\ rows_to_insert = <<>>)
        /\ SourceReady =>
            LET valid == SelectSeq(SubSeq(Source, 1, Started), HasBothIds) IN
            /\ Len(downloads) = Len(valid)
            /\ \A i \in 1..Len(valid) :
                  downloads[i].path = <<valid[i].idx, "/", valid[i].idx>>
            /\ \A i \in 1..Len(rows_to_insert) :
                  \E k \in 1..Len(valid) :
                      /\ rows_to_insert[i].file_id = valid[k].idx
                      /\ rows_to_insert[i].user_id = valid[k].idx
            /\ gpc = "raised" => HasBothIds(Source[doc_idx + 1])
            /\ (gpc = "rows" /\ doc_idx < Len(Source) /\ ~HasBothIds(Source[doc_idx + 1]))
                  => ENABLED IngestDoc
            /\ RunDone => doc_idx = Len(Source)

\* a finished upload run whose first row lacks an identifier and whose
\* second row was downloaded and written
Wit_C14_SkipsIncompleteRows ==
    /\ op = "uploads"
    /\ RunDone
    /\ Len(docs) = 2
    /\ ~HasBothIds(Source[1])
    /\ HasBothIds(Source[2])
    /\ Len(downloads) = 1
    /\ store # <<>>
    /\ store[1].file_id = Source[2].idx

\* C15: the writer is called at most once, and only when every source
\* row has been through the loop with every download and embedding done;
\* when a list, download, extraction or embedding step has failed, no
\* writer call was made and the store holds no row of the run.
Thm_C15_WriteOnceAtEnd ==
    gpc # "idle" =>
        /\ insert_calls <= 1
        /\ (insert_calls = 1 \/ posts # <<>> \/ store # <<>>) =>
              /\ insert_calls = 1
              /\ SourceReady
              /\ doc_idx = Len(Source)
              /\ \A i \in 1..Len(downloads) : downloads[i].ok
              /\ \A i \in 1..Len(embed_calls) : embed_calls[i].ok
              /\ rows_list = rows_to_insert
        /\ (fpc = "raised" \/ gpc = "raised") =>
              /\ insert_calls = 0
              /\ posts = <<>>
              /\ store = <<>>

\* an upload run that raised on its second document with the rows of the
\* first already accumulated
Wit_C15_WriteOnceAtEnd ==
    /\ op = "uploads"
    /\ gpc = "raised"
    /\ doc_idx = 1
    /\ rows_to_insert # <<>>
    /\ insert_calls = 0
    /\ store = <<>>

\* the number of chunks of the successful embedder calls before call j
RECURSIVE EmbeddedBefore(_)
EmbeddedBefore(j) ==
    IF j <= 1 THEN 0
    ELSE EmbeddedBefore(j - 1)
         + (IF embed_calls[j - 1].ok THEN Len(embed_calls[j - 1].inputs) ELSE 0)

\* the document a row belongs to
DocOf(r) ==
    CASE op = "species" -> r.species_id
      [] op = "uploads" -> r.file_id
      [] op = "web"     -> r.url

\* C20: the output rows are, document after document, one per chunk of
\* the document in chunk order, each with its chunk, the vector of that
\* chunk and the index i = 0, 1, ..., k-1: as chunk_id = id ":" i on the
\* canonical and upload paths, as chunk_index on the web path; so chunk
\* ids are pairwise distinct within a document.
Thm_C20_RowPerChunkInOrder ==
    gpc # "idle" =>
        /\ Len(rows_to_insert) = EmbeddedBefore(Len(embed_calls) + 1)
        /\ \A j \in 1..Len(embed_calls) :
              LET c == embed_calls[j] IN
              c.ok =>
                \A i \in 1..Len(c.inputs) :
                    LET r == rows_to_insert[EmbeddedBefore(j) + i] IN
                    /\ DocOf(r) = Source[c.doc].idx
                    /\ r.content = c.inputs[i]
                    /\ r.embedding = [vector_of |-> c.inputs[i]]
                    /\ IF op = "web"
                       THEN r.chunk_index = i - 1
                       ELSE r.chunk_id = <<Source[c.doc].idx, ":", i - 1>>
        /\ op # "web" =>
              \A a, b \in 1..Len(rows_to_insert) :
                  (a # b /\ DocOf(rows_to_insert[a]) = DocOf(rows_to_insert[b]))
                      => rows_to_insert[a].chunk_id # rows_to_insert[b].chunk_id

\* a finished run of two documents, one of them of three or more chunks,
\* all rows written
Wit_C20_RowPerChunkInOrder ==
    /\ RunDone
    /\ Len(embed_calls) = 2
    /\ \E j \in 1..2 : Len(embed_calls[j].inputs) >= 3
    /\ Len(embed_calls[1].inputs) >= 1
    /\ Len(embed_calls[2].inputs) >= 1
    /\ store = rows_to_insert

====
